---- MODULE Spec2Model ----
(***************************************************************************)
(* A model of srtm4.py: the SRTM tile cache (get_srtm_tile and its two     *)
(* file locks), the crop loop over the tiles of a span, tile names, the    *)
(* pixel grid arithmetic, the mosaic merge and the antimeridian crop.      *)
(***************************************************************************)
EXTENDS Integers, Sequences, FiniteSets, TLC

VARIABLES
    \* ---- the tile cache and the processes that use it ----
    pc,         \* pc[p]: where process p stands in crop_at_continous_lon_limits / get_srtm_tile
    todo,       \* todo[p]: tile names the crop loop of p has still to visit (head = current tile)
    opened,     \* opened[p]: len(datasets) of the crop of p
    err,        \* err[p]: the exception p is raising / has raised ("none" if none)
    first,      \* first[p]: what the existence test of line 122 saw in the current call
    fetched,    \* fetched[p]: kind of archive the current call of p downloaded ("none" if none)
    tif,        \* tif[t]: state of <t>.tif in the cache directory
    zip,        \* zip[t]: state of <t>.zip in the cache directory
    zipLock,    \* holder of srtm_zip.lock (0: free)
    tifLock,    \* holder of srtm_tif.lock (0: free)
    downloads,  \* downloads[t]: archives of t fetched completely from the network so far
    unusable,   \* unusable[t]: those of them that were no zip archive holding <t>.tif
    extracted,  \* extracted[t]: extractions of <t>.tif completed so far
    \* ---- tile names ----
    ids,        \* a tile id <<lon_id, lat_id>>
    name,  \* id2name of it ("unset" before the call)
    parsed,     \* name2id of name ("unset" before the call)
    \* ---- the pixel grid and the antimeridian crop ----
    bounds,     \* requested bounds <<lon_min, lat_min, lon_max, lat_max>> (floats)
    adjusted,   \* results of adjust_bounds_to_px_grid applied to bounds, then to its own result
    cropped,    \* what crop(bounds) returned
    \* ---- merge ----
    datasets,   \* the opened tiles that merge is given
    nodata,     \* the nodata value of the final array
    dst_array,  \* the final array, a sequence of rows
    merged,     \* number of datasets the loop of merge is through with
    regions,    \* what the calls of get_px_region of the last dataset were given and gave
    mpc         \* "loop" while merge runs, then "returned" or "raised"

cacheVars == <<pc, todo, opened, err, first, fetched, tif, zip, zipLock, tifLock,
               downloads, unusable, extracted>>

nameVars == <<ids, name, parsed>>

gridVars == <<bounds, adjusted, cropped>>

mergeVars == <<datasets, nodata, dst_array, merged, regions, mpc>>

vars == <<cacheVars, nameVars, gridVars, mergeVars>>

notCache == <<nameVars, gridVars, mergeVars>>
notNames == <<cacheVars, gridVars, mergeVars>>
notGrid == <<cacheVars, nameVars, mergeVars>>
notMerge == <<cacheVars, nameVars, gridVars>>

(***************************************************************************)
(* Bounds of the model.                                                    *)
(***************************************************************************)
NumProcs == 2

Procs == 1..NumProcs

(***************************************************************************)
(* Tile names: id2name / name2id.  A string is a sequence of characters.   *)
(***************************************************************************)
DigitChars == <<"0", "1", "2", "3", "4", "5", "6", "7", "8", "9">>

\* str(n) for n >= 0: the decimal digits of n, most significant first
RECURSIVE DecimalDigits(_)
DecimalDigits(n) ==
    IF n < 10 THEN <<DigitChars[n + 1]>>
    ELSE Append(DecimalDigits(n \div 10), DigitChars[(n % 10) + 1])

\* '{:02d}'.format(n) for n >= 0: zero padded to a width of at least 2
Format02d(n) ==
    LET d == DecimalDigits(n)
    IN  IF Len(d) < 2 THEN <<"0">> \o d ELSE d

id2nameSwapped(lon_id, lat_id) ==
    <<"s", "r", "t", "m", "_">> \o Format02d(lat_id) \o <<"_">> \o Format02d(lon_id)

\* 'srtm_{:02d}_{:02d}'.format(lon_id, lat_id)
id2name(lon_id, lat_id) ==
    <<"s", "r", "t", "m", "_">> \o Format02d(lon_id) \o <<"_">> \o Format02d(lat_id)

\* s.split(sep): the fields of s between the occurrences of sep
RECURSIVE SplitFrom(_, _, _, _)
SplitFrom(s, sep, i, field) ==
    IF i > Len(s) THEN <<field>>
    ELSE IF s[i] = sep THEN <<field>> \o SplitFrom(s, sep, i + 1, <<>>)
    ELSE SplitFrom(s, sep, i + 1, Append(field, s[i]))

Split(s, sep) == SplitFrom(s, sep, 1, <<>>)

DigitValue(c) == CHOOSE v \in 0..9 : DigitChars[v + 1] = c

IsDigits(s) == Len(s) > 0 /\ \A i \in 1..Len(s) : \E v \in 0..9 : DigitChars[v + 1] = s[i]

\* int(s) for a string of decimal digits
RECURSIVE ParseInt(_)
ParseInt(s) ==
    IF Len(s) = 0 THEN 0
    ELSE 10 * ParseInt(SubSeq(s, 1, Len(s) - 1)) + DigitValue(s[Len(s)])

\* name2id: "ValueError" stands for int() or the indexing raising
name2id(tile_name) ==
    LET splitted == Split(tile_name, "_")
    IN  IF Len(splitted) < 3 \/ ~IsDigits(splitted[2]) \/ ~IsDigits(splitted[3])
        THEN "ValueError"
        ELSE <<ParseInt(splitted[2]), ParseInt(splitted[3])>>

(***************************************************************************)
(* The tiles of a crop: the ids between the tiles of the two corner        *)
(* points, rows (lat ids) outermost, as the loops of lines 566-567 visit.  *)
(***************************************************************************)
RECURSIVE IdRow(_, _, _)
IdRow(lo, hi, lat) ==
    IF lo > hi THEN <<>> ELSE <<id2name(lo, lat)>> \o IdRow(lo + 1, hi, lat)

RECURSIVE TileRange(_, _, _, _)
TileRange(lon_lo, lon_hi, lat_lo, lat_hi) ==
    IF lat_lo > lat_hi THEN <<>>
    ELSE IdRow(lon_lo, lon_hi, lat_lo) \o TileRange(lon_lo, lon_hi, lat_lo + 1, lat_hi)

\* the valid tile ids (docstring of name2id, lines 255-256)
MaxLonId == 72
MaxLatId == 24

\* the tile ids the modelled crops ask for: two neighbouring tiles of the top row.
\* The two locks belong to the cache directory, not to a tile, so two tiles show
\* all there is to see of calls for the same tile and of calls for different ones.
LonIds == {MaxLonId - 1, MaxLonId}
LatIds == {1}
TileNames == {id2name(lon, lat) : lon \in LonIds, lat \in LatIds}

\* the spans a crop may cover: corner tiles (nw, se) with ascending ids (lines 559, 562)
Spans ==
    {TileRange(a, b, c, d) : a \in LonIds, b \in LonIds, c \in LatIds, d \in LatIds}
        \ {<<>>}

(***************************************************************************)
(* The tile cache.                                                         *)
(***************************************************************************)
Cur(p) == Head(todo[p])

Exists(t) == tif[t] # "absent"

\* what session.get / download can end with (lines 89-101)
\*   "zip_ok":      200, a zip archive holding <tile>.tif
\*   "zip_noentry": 200, a zip archive without <tile>.tif
\*   "notzip":      200, a body that is no zip archive
\*   "status":      a response that is not ok: the builtin ConnectionError of line 91
\*   "retry":       retries exhausted on 5xx: requests' RetryError
\*   "network":     the connection failed: requests.exceptions.ConnectionError,
\*                  an IOError that is no builtin ConnectionError
\*   "malformed":   200 without a content-length header: KeyError at line 94
Archives == {"zip_ok", "zip_noentry", "notzip"}
CaughtFailures == {"status", "retry"}
UncaughtFailures == {"network", "malformed"}

FailureError(k) ==
    CASE k = "status" -> "ConnectionError"
      [] k = "retry" -> "RetryError"
      [] k = "network" -> "RequestsConnectionError"
      [] k = "malformed" -> "KeyError"

CacheInit ==
    /\ pc = [p \in Procs |-> "loop"]
    /\ todo \in [Procs -> Spans]
    /\ opened = [p \in Procs |-> 0]
    /\ err = [p \in Procs |-> "none"]
    /\ first = [p \in Procs |-> "none"]
    /\ fetched = [p \in Procs |-> "none"]
    /\ tif = [t \in TileNames |-> "absent"]
    /\ zip = [t \in TileNames |-> "absent"]
    /\ zipLock = 0
    /\ tifLock = 0
    /\ downloads = [t \in TileNames |-> 0]
    /\ unusable = [t \in TileNames |-> 0]
    /\ extracted = [t \in TileNames |-> 0]

\* the cache when no process uses it
CacheIdle ==
    /\ pc = [p \in Procs |-> "crop_done"]
    /\ todo = [p \in Procs |-> <<>>]
    /\ opened = [p \in Procs |-> 0]
    /\ err = [p \in Procs |-> "none"]
    /\ first = [p \in Procs |-> "none"]
    /\ fetched = [p \in Procs |-> "none"]
    /\ tif = [t \in TileNames |-> "absent"]
    /\ zip = [t \in TileNames |-> "absent"]
    /\ zipLock = 0
    /\ tifLock = 0
    /\ downloads = [t \in TileNames |-> 0]
    /\ unusable = [t \in TileNames |-> 0]
    /\ extracted = [t \in TileNames |-> 0]

\* lines 566-570, 113-122: the loop takes its next tile and calls get_srtm_tile,
\* which makes its first existence test
LoopCall(p) ==
    /\ pc[p] = "loop"
    /\ todo[p] # <<>>
    /\ first' = [first EXCEPT ![p] = tif[Cur(p)]]
    /\ pc' = [pc EXCEPT ![p] = IF Exists(Cur(p)) THEN "fast_acquire" ELSE "zip_acquire"]
    /\ UNCHANGED <<todo, opened, err, fetched, tif, zip, zipLock, tifLock,
                   downloads, unusable, extracted>>
    /\ UNCHANGED notCache

\* lines 579-582: the loop is over; no dataset raises ValueError, else merge
LoopEnd(p) ==
    /\ pc[p] = "loop"
    /\ todo[p] = <<>>
    /\ IF opened[p] = 0
       THEN /\ pc' = [pc EXCEPT ![p] = "crop_raised"]
            /\ err' = [err EXCEPT ![p] = "ValueError"]
       ELSE /\ pc' = [pc EXCEPT ![p] = "crop_done"]
            /\ UNCHANGED err
    /\ UNCHANGED <<todo, opened, first, fetched, tif, zip, zipLock, tifLock,
                   downloads, unusable, extracted>>
    /\ UNCHANGED notCache

FastAcquireNoWait(p) ==
    /\ pc[p] = "fast_acquire"
    /\ pc' = [pc EXCEPT ![p] = "fast_release"]
    /\ UNCHANGED <<todo, opened, err, first, fetched, tif, zip, zipLock, tifLock,
                   downloads, unusable, extracted>>
    /\ UNCHANGED notCache

\* lines 126-127: lock_tif.acquire() blocks while the write lock is held
FastAcquire(p) ==
    /\ pc[p] = "fast_acquire"
    /\ tifLock = 0
    /\ tifLock' = p
    /\ pc' = [pc EXCEPT ![p] = "fast_release"]
    /\ UNCHANGED <<todo, opened, err, first, fetched, tif, zip, zipLock,
                   downloads, unusable, extracted>>
    /\ UNCHANGED notCache

\* lines 128-129: lock_tif.release(); return
FastRelease(p) ==
    /\ pc[p] = "fast_release"
    /\ tifLock' = IF tifLock = p THEN 0 ELSE tifLock
    /\ pc' = [pc EXCEPT ![p] = "ret"]
    /\ UNCHANGED <<todo, opened, err, first, fetched, tif, zip, zipLock,
                   downloads, unusable, extracted>>
    /\ UNCHANGED notCache

\* lines 135-136: lock_zip.acquire() blocks while the download lock is held
ZipAcquire(p) ==
    /\ pc[p] = "zip_acquire"
    /\ zipLock = 0
    /\ zipLock' = p
    /\ pc' = [pc EXCEPT ![p] = "check2"]
    /\ UNCHANGED <<todo, opened, err, first, fetched, tif, zip, tifLock,
                   downloads, unusable, extracted>>
    /\ UNCHANGED notCache

Check2NoRecheck(p) ==
    /\ pc[p] = "check2"
    /\ pc' = [pc EXCEPT ![p] = "dl_get"]
    /\ UNCHANGED <<todo, opened, err, first, fetched, tif, zip, zipLock, tifLock,
                   downloads, unusable, extracted>>
    /\ UNCHANGED notCache

\* lines 138-148: the second existence test, under the download lock
Check2(p) ==
    /\ pc[p] = "check2"
    /\ IF Exists(Cur(p))
       THEN /\ zipLock' = 0
            /\ pc' = [pc EXCEPT ![p] = "ret"]
       ELSE /\ pc' = [pc EXCEPT ![p] = "dl_get"]
            /\ UNCHANGED zipLock
    /\ UNCHANGED <<todo, opened, err, first, fetched, tif, zip, tifLock,
                   downloads, unusable, extracted>>
    /\ UNCHANGED notCache

\* lines 88-96 of download: session.get, the status test, the content-length header
DlGet(p) ==
    /\ pc[p] = "dl_get"
    /\ \E outcome \in {"ok"} \cup CaughtFailures \cup UncaughtFailures :
         IF outcome = "ok"
         THEN /\ pc' = [pc EXCEPT ![p] = "dl_write"]
              /\ UNCHANGED err
         ELSE /\ err' = [err EXCEPT ![p] = FailureError(outcome)]
              /\ pc' = [pc EXCEPT ![p] =
                          IF outcome \in CaughtFailures THEN "dl_except" ELSE "raised"]
    /\ UNCHANGED <<todo, opened, first, fetched, tif, zip, zipLock, tifLock,
                   downloads, unusable, extracted>>
    /\ UNCHANGED notCache

\* lines 98-101 of download: the body is written to <tile>.zip
DlWrite(p) ==
    /\ pc[p] = "dl_write"
    /\ \E a \in Archives :
         /\ zip' = [zip EXCEPT ![Cur(p)] = a]
         /\ fetched' = [fetched EXCEPT ![p] = a]
         /\ unusable' = [unusable EXCEPT ![Cur(p)] = IF a = "zip_ok" THEN @ ELSE @ + 1]
    /\ downloads' = [downloads EXCEPT ![Cur(p)] = @ + 1]
    /\ pc' = [pc EXCEPT ![p] = "tif_acquire"]
    /\ UNCHANGED <<todo, opened, err, first, tif, zipLock, tifLock, extracted>>
    /\ UNCHANGED notCache

\* lines 152-154: except (ConnectionError, RetryError): lock_zip.release(); raise e
DlExcept(p) ==
    /\ pc[p] = "dl_except"
    /\ zipLock' = 0
    /\ pc' = [pc EXCEPT ![p] = "raised"]
    /\ UNCHANGED <<todo, opened, err, first, fetched, tif, zip, tifLock,
                   downloads, unusable, extracted>>
    /\ UNCHANGED notCache

TifAcquireNoLock(p) ==
    /\ pc[p] = "tif_acquire"
    /\ pc' = [pc EXCEPT ![p] = "extract"]
    /\ UNCHANGED <<todo, opened, err, first, fetched, tif, zip, zipLock, tifLock,
                   downloads, unusable, extracted>>
    /\ UNCHANGED notCache

\* lines 156-157: lock_tif.acquire()
TifAcquire(p) ==
    /\ pc[p] = "tif_acquire"
    /\ tifLock = 0
    /\ tifLock' = p
    /\ pc' = [pc EXCEPT ![p] = "extract"]
    /\ UNCHANGED <<todo, opened, err, first, fetched, tif, zip, zipLock,
                   downloads, unusable, extracted>>
    /\ UNCHANGED notCache

\* lines 160-164: is_zipfile, then z.extract starts writing <tile>.tif, or raises
\* KeyError for an archive without the entry, or the tile is reported unavailable
ExtractBegin(p) ==
    /\ pc[p] = "extract"
    /\ CASE zip[Cur(p)] = "zip_ok" ->
              /\ tif' = [tif EXCEPT ![Cur(p)] = "partial"]
              /\ pc' = [pc EXCEPT ![p] = "extracting"]
              /\ UNCHANGED err
         [] zip[Cur(p)] = "zip_noentry" ->
              /\ err' = [err EXCEPT ![p] = "KeyError"]
              /\ pc' = [pc EXCEPT ![p] = "raised"]
              /\ UNCHANGED tif
         [] OTHER ->
              /\ pc' = [pc EXCEPT ![p] = "remove"]
              /\ UNCHANGED <<tif, err>>
    /\ UNCHANGED <<todo, opened, first, fetched, zip, zipLock, tifLock,
                   downloads, unusable, extracted>>
    /\ UNCHANGED notCache

\* line 162: z.extract has written the whole of <tile>.tif
ExtractEnd(p) ==
    /\ pc[p] = "extracting"
    /\ tif' = [tif EXCEPT ![Cur(p)] = "complete"]
    /\ extracted' = [extracted EXCEPT ![Cur(p)] = @ + 1]
    /\ pc' = [pc EXCEPT ![p] = "remove"]
    /\ UNCHANGED <<todo, opened, err, first, fetched, zip, zipLock, tifLock,
                   downloads, unusable>>
    /\ UNCHANGED notCache

\* line 167: os.remove(zip_path)
RemoveZip(p) ==
    /\ pc[p] = "remove"
    /\ zip' = [zip EXCEPT ![Cur(p)] = "absent"]
    /\ pc' = [pc EXCEPT ![p] = "release_tif"]
    /\ UNCHANGED <<todo, opened, err, first, fetched, tif, zipLock, tifLock,
                   downloads, unusable, extracted>>
    /\ UNCHANGED notCache

\* line 170: lock_tif.release()
ReleaseTif(p) ==
    /\ pc[p] = "release_tif"
    /\ tifLock' = 0
    /\ pc' = [pc EXCEPT ![p] = "release_zip"]
    /\ UNCHANGED <<todo, opened, err, first, fetched, tif, zip, zipLock,
                   downloads, unusable, extracted>>
    /\ UNCHANGED notCache

\* line 171: lock_zip.release(), and the call returns
ReleaseZip(p) ==
    /\ pc[p] = "release_zip"
    /\ zipLock' = 0
    /\ pc' = [pc EXCEPT ![p] = "ret"]
    /\ UNCHANGED <<todo, opened, err, first, fetched, tif, zip, tifLock,
                   downloads, unusable, extracted>>
    /\ UNCHANGED notCache

\* the call of get_srtm_tile is over: its frame (what it saw, what it fetched) is gone
EndCall(p) ==
    /\ first' = [first EXCEPT ![p] = "none"]
    /\ fetched' = [fetched EXCEPT ![p] = "none"]

\* lines 573-577: get_srtm_tile returned; rasterio.open of <tile>.tif raises for a
\* file that is not there, may do either for a file still being written, and the
\* dataset is appended otherwise
OpenTile(p) ==
    /\ pc[p] = "ret"
    /\ \E ok \in BOOLEAN :
         /\ tif[Cur(p)] = "absent" => ~ok
         /\ tif[Cur(p)] = "complete" => ok
         /\ IF ok
            THEN /\ opened' = [opened EXCEPT ![p] = @ + 1]
                 /\ todo' = [todo EXCEPT ![p] = Tail(@)]
                 /\ pc' = [pc EXCEPT ![p] = "loop"]
                 /\ UNCHANGED err
            ELSE /\ err' = [err EXCEPT ![p] = "RasterioIOError"]
                 /\ pc' = [pc EXCEPT ![p] = "crop_raised"]
                 /\ UNCHANGED <<opened, todo>>
    /\ EndCall(p)
    /\ UNCHANGED <<tif, zip, zipLock, tifLock, downloads, unusable, extracted>>
    /\ UNCHANGED notCache

CatchAny(p) ==
    /\ pc[p] = "raised"
    /\ todo' = [todo EXCEPT ![p] = Tail(@)]
    /\ err' = [err EXCEPT ![p] = "none"]
    /\ pc' = [pc EXCEPT ![p] = "loop"]
    /\ EndCall(p)
    /\ UNCHANGED <<opened, tif, zip, zipLock, tifLock, downloads, unusable, extracted>>
    /\ UNCHANGED notCache

\* lines 571-572: except ConnectionError: continue; any other exception leaves the crop
Catch(p) ==
    /\ pc[p] = "raised"
    /\ IF err[p] = "ConnectionError"
       THEN /\ todo' = [todo EXCEPT ![p] = Tail(@)]
            /\ err' = [err EXCEPT ![p] = "none"]
            /\ pc' = [pc EXCEPT ![p] = "loop"]
       ELSE /\ pc' = [pc EXCEPT ![p] = "crop_raised"]
            /\ UNCHANGED <<todo, err>>
    /\ EndCall(p)
    /\ UNCHANGED <<opened, tif, zip, zipLock, tifLock, downloads, unusable, extracted>>
    /\ UNCHANGED notCache

\* lines 135, 156: lock_zip and lock_tif are locals of get_srtm_tile that no
\* statement releases on an exception it does not catch; they are let go when the
\* objects are destroyed or the process ends, some time after the crop was left
Finalize(p) ==
    /\ pc[p] = "crop_raised"
    /\ zipLock = p \/ tifLock = p
    /\ zipLock' = IF zipLock = p THEN 0 ELSE zipLock
    /\ tifLock' = IF tifLock = p THEN 0 ELSE tifLock
    /\ UNCHANGED <<pc, todo, opened, err, first, fetched, tif, zip, downloads, unusable, extracted>>
    /\ UNCHANGED notCache

(***************************************************************************)
(* Python floats are IEEE 754 binary64 numbers.  A natural number of any    *)
(* size is a sequence of limbs (digits in base 2^15), least significant    *)
(* first and without leading zero limbs; a float is sign * mant * 2^exp    *)
(* with a mantissa of MantBits bits (or zero).  Every arithmetic           *)
(* operation computes the exact result and rounds it to the nearest float, *)
(* ties to even, as the hardware does.  (No value of the model comes near  *)
(* the overflow or subnormal ranges.)                                      *)
(***************************************************************************)
MantBits == 53
Base == 2^15

\* the element of a set of one element: The({e(x) : x \in {v}}) is e(v), with v
\* computed once
The(S) == CHOOSE x \in S : TRUE

Limb(a, i) == IF i <= Len(a) THEN a[i] ELSE 0

\* a without its leading zero limbs
BNorm(a) ==
    The({LET nz == {i \in 1..Len(x) : x[i] # 0}
         IN  IF nz = {} THEN <<>>
             ELSE SubSeq(x, 1, CHOOSE i \in nz : \A j \in nz : j <= i) : x \in {a}})

RECURSIVE BFromInt(_)
BFromInt(n) == IF n = 0 THEN <<>> ELSE <<n % Base>> \o BFromInt(n \div Base)

\* the int of at most three limbs
BToInt(a) == The({Limb(x, 1) + Base * (Limb(x, 2) + Base * Limb(x, 3)) : x \in {a}})

\* -1, 0, 1 as a < b, a = b, a > b
RECURSIVE BCmpFrom(_, _, _)
BCmpFrom(a, b, i) ==
    IF i = 0 THEN 0
    ELSE IF a[i] < b[i] THEN -1
    ELSE IF a[i] > b[i] THEN 1
    ELSE BCmpFrom(a, b, i - 1)

BCmp(a, b) ==
    The({IF Len(x) < Len(y) THEN -1
         ELSE IF Len(x) > Len(y) THEN 1
         ELSE BCmpFrom(x, y, Len(x)) : x \in {a}, y \in {b}})

RECURSIVE BAddFrom(_, _, _, _)
BAddFrom(a, b, i, carry) ==
    IF i > Len(a) /\ i > Len(b)
    THEN (IF carry = 0 THEN <<>> ELSE <<carry>>)
    ELSE The({<<t % Base>> \o BAddFrom(a, b, i + 1, t \div Base) :
                 t \in {Limb(a, i) + Limb(b, i) + carry}})

BAdd(a, b) == The({BAddFrom(x, y, 1, 0) : x \in {a}, y \in {b}})

\* a - b for a >= b
RECURSIVE BSubFrom(_, _, _, _)
BSubFrom(a, b, i, borrow) ==
    IF i > Len(a) THEN <<>>
    ELSE The({IF t < 0 THEN <<t + Base>> \o BSubFrom(a, b, i + 1, 1)
              ELSE <<t>> \o BSubFrom(a, b, i + 1, 0) :
                 t \in {a[i] - Limb(b, i) - borrow}})

BSub(a, b) == BNorm(The({BSubFrom(x, y, 1, 0) : x \in {a}, y \in {b}}))

\* a * d for one limb d
RECURSIVE BMulLimbFrom(_, _, _, _)
BMulLimbFrom(a, d, i, carry) ==
    IF i > Len(a)
    THEN (IF carry = 0 THEN <<>> ELSE <<carry>>)
    ELSE The({<<t % Base>> \o BMulLimbFrom(a, d, i + 1, t \div Base) :
                 t \in {a[i] * d + carry}})

BMulLimb(a, d) == BNorm(The({BMulLimbFrom(x, y, 1, 0) : x \in {a}, y \in {d}}))

\* a * Base^k
BShiftLimbs(a, k) == The({IF x = <<>> THEN <<>> ELSE [i \in 1..k |-> 0] \o x : x \in {a}})

RECURSIVE BMulFrom(_, _, _)
BMulFrom(a, b, j) ==
    IF j > Len(b) THEN <<>>
    ELSE BAdd(BShiftLimbs(BMulLimb(a, b[j]), j - 1), BMulFrom(a, b, j + 1))

BMul(a, b) == The({BMulFrom(x, y, 1) : x \in {a}, y \in {b}})

\* a * 2^n
BShl(a, n) == BShiftLimbs(BMulLimb(a, 2^(n % 15)), n \div 15)

\* a \div 2^n
BShr(a, n) ==
    The({IF w >= Len(x) THEN <<>>
         ELSE BNorm([i \in 1..(Len(x) - w) |->
                       (x[i + w] \div 2^r) + (Limb(x, i + w + 1) % 2^r) * 2^(15 - r)]) :
            x \in {a}, w \in {n \div 15}, r \in {n % 15}})

\* a % 2^n
BLowBits(a, n) == The({BSub(x, BShl(BShr(x, n), n)) : x \in {a}})

RECURSIVE IntBitLen(_)
IntBitLen(n) == IF n = 0 THEN 0 ELSE 1 + IntBitLen(n \div 2)

BBitLen(a) ==
    The({IF x = <<>> THEN 0 ELSE 15 * (Len(x) - 1) + IntBitLen(x[Len(x)]) : x \in {a}})

BIsOdd(a) == Limb(a, 1) % 2 = 1

\* the largest digit d with b * d <= r, for r < b * Base and a divisor b whose top
\* limb is at least Base / 2: the two top limbs of r divided by the top limb of b
\* give a digit that is at most 2 too large
BQuotDigit(r, b) ==
    The({IF BCmp(BMulLimb(b, qhat), r) <= 0 THEN qhat
         ELSE IF BCmp(BMulLimb(b, qhat - 1), r) <= 0 THEN qhat - 1
         ELSE qhat - 2 :
            qhat \in {The({IF est > Base - 1 THEN Base - 1 ELSE est :
                             est \in {(Limb(r, Len(b) + 1) * Base + Limb(r, Len(b)))
                                      \div b[Len(b)]}})}})

\* long division, limb i of a downwards, with the limbs q of the quotient and the
\* remainder r so far
RECURSIVE BDivFrom(_, _, _, _, _)
BDivFrom(a, b, i, q, r) ==
    IF i = 0 THEN [q |-> q, r |-> r]
    ELSE The({The({The({BDivFrom(a, b, i - 1, q2, r3) :
                           q2 \in {<<digit>> \o q},
                           r3 \in {IF digit = 0 THEN r2 ELSE BSub(r2, BMulLimb(b, digit))}}) :
                      digit \in {BQuotDigit(r2, b)}}) :
                 r2 \in {BNorm(<<a[i]>> \o r)}})

\* [q |-> a \div b, r |-> a % b] for b # 0: both are first scaled by the power of
\* 2 that brings the top limb of b to Base / 2 or more
BDivMod(a, b) ==
    The({The({[q |-> BNorm(d.q), r |-> BShr(d.r, s)] :
                 d \in {The({BDivFrom(x, y, Len(x), <<>>, <<>>) :
                               x \in {BShl(a, s)}, y \in {BShl(b, s)}})}}) :
            s \in {The({15 - IntBitLen(y[Len(y)]) : y \in {b}})}})

FZero == [sign |-> 1, mant |-> <<>>, exp |-> 0]

\* the float nearest to sign * n * 2^e, for the natural number m = n of len bits
RoundToFloat(sign, n, e) ==
    The({IF len = 0 THEN FZero
         ELSE IF len <= MantBits
         THEN [sign |-> sign, mant |-> BShl(m, MantBits - len), exp |-> e - (MantBits - len)]
         ELSE The({The({IF BBitLen(q1) > MantBits
                        THEN [sign |-> sign, mant |-> BShr(q1, 1), exp |-> e + sh + 1]
                        ELSE [sign |-> sign, mant |-> q1, exp |-> e + sh] :
                           q1 \in {IF c > 0 \/ (c = 0 /\ BIsOdd(q)) THEN BAdd(q, <<1>>)
                                   ELSE q}}) :
                      sh \in {len - MantBits},
                      q \in {BShr(m, len - MantBits)},
                      c \in {BCmp(BLowBits(m, len - MantBits),
                                  BShl(<<1>>, len - MantBits - 1))}}) :
            m \in {n}, len \in {BBitLen(n)}})

Sgn(k) == IF k < 0 THEN -1 ELSE 1
Abs(k) == IF k < 0 THEN -k ELSE k

\* float(k) for an int k
FFromInt(k) == RoundToFloat(Sgn(k), BFromInt(Abs(k)), 0)

\* the float n / 2^s
Dyadic(n, s) == RoundToFloat(Sgn(n), BFromInt(Abs(n)), -s)

FNeg(a) == The({IF x.mant = <<>> THEN x ELSE [x EXCEPT !.sign = -x.sign] : x \in {a}})

FMul(a, b) ==
    The({RoundToFloat(x.sign * y.sign, BMul(x.mant, y.mant), x.exp + y.exp) :
            x \in {a}, y \in {b}})

\* a / b for b # 0: the quotient of the mantissas to 55 bits and more, and a last
\* bit that says whether anything is left
FDiv(a, b) ==
    The({IF x.mant = <<>> THEN FZero
         ELSE The({RoundToFloat(x.sign * y.sign,
                                BAdd(BAdd(d.q, d.q), IF d.r = <<>> THEN <<>> ELSE <<1>>),
                                x.exp - y.exp - (MantBits + 2) - 1) :
                      d \in {BDivMod(BShl(x.mant, MantBits + 2), y.mant)}}) :
            x \in {a}, y \in {b}})

\* x + y for mantissas brought to the smaller exponent e
FAddAligned(a, b, e) ==
    The({IF a.sign = b.sign THEN RoundToFloat(a.sign, BAdd(x, y), e)
         ELSE The({IF c = 0 THEN FZero
                   ELSE IF c > 0 THEN RoundToFloat(a.sign, BSub(x, y), e)
                   ELSE RoundToFloat(b.sign, BSub(y, x), e) : c \in {BCmp(x, y)}}) :
            x \in {BShl(a.mant, a.exp - e)}, y \in {BShl(b.mant, b.exp - e)}})

FAdd(a, b) ==
    The({IF x.mant = <<>> THEN y
         ELSE IF y.mant = <<>> THEN x
         ELSE FAddAligned(x, y, IF x.exp < y.exp THEN x.exp ELSE y.exp) :
            x \in {a}, y \in {b}})

FSub(a, b) == FAdd(a, FNeg(b))

\* -1, 0, 1 as a < b, a = b, a > b
FCmp(a, b) == The({IF d.mant = <<>> THEN 0 ELSE d.sign : d \in {FSub(a, b)}})

FLess(a, b) == FCmp(a, b) < 0

\* int(numpy.floor(a))
FFloor(a) ==
    The({IF x.mant = <<>> THEN 0
         ELSE IF x.exp >= 0 THEN x.sign * BToInt(BShl(x.mant, x.exp))
         ELSE The({IF x.sign = 1 THEN q
                   ELSE IF BLowBits(x.mant, -x.exp) # <<>> THEN -(q + 1) ELSE -q :
                      q \in {BToInt(BShr(x.mant, -x.exp))}}) :
            x \in {a}})

\* int(numpy.ceil(a))
FCeil(a) == -FFloor(FNeg(a))

\* a % b of Python floats for b > 0: fmod is exact and has the sign of a; a negative
\* remainder is brought into [0, b) by adding b
FMod(a, b) ==
    The({IF x.mant = <<>> THEN FZero
         ELSE The({IF r.mant # <<>> /\ r.sign < 0 THEN FAdd(r, y) ELSE r :
                      r \in {The({RoundToFloat(x.sign,
                                               BDivMod(BShl(x.mant, x.exp - e),
                                                       BShl(y.mant, y.exp - e)).r, e) :
                                     e \in {IF x.exp < y.exp THEN x.exp ELSE y.exp}})}}) :
            x \in {a}, y \in {b}})

(***************************************************************************)
(* The pixel grid: adjust_bounds_to_px_grid, wrap_lon and the crop that    *)
(* may cross the antimeridian.  A raster is described by its number of     *)
(* rows and, for each of its columns, the grid column (the multiple of RES *)
(* in longitude) whose data merge writes there.                            *)
(***************************************************************************)
RES == FDiv(FFromInt(3), FFromInt(3600))

\* what intersect_intervals gives when it gives no interval: kind is "None" for
\* the pair (None, None) and "AssertionError" for a failed assertion
NoInterval(kind) == [kind |-> kind, low |-> "None", up |-> "None"]

\* intersect_intervals of two intervals of floats; assert_interval wants up > low
\* of both
intersect_intervals(interval_one, interval_two) ==
    The({IF ~FLess(one[1], one[2]) \/ ~FLess(two[1], two[2])
         THEN NoInterval("AssertionError")
         ELSE The({IF FLess(up_inter, low_inter) THEN NoInterval("None")
                   ELSE [kind |-> "interval", low |-> low_inter, up |-> up_inter] :
                      low_inter \in {IF FLess(one[1], two[1]) THEN two[1] ELSE one[1]},
                      up_inter \in {IF FLess(two[2], one[2]) THEN two[2] ELSE one[2]}}) :
            one \in {interval_one}, two \in {interval_two}})

\* lines 331-334: the grid columns and rows of the bounds
px_grid(b) ==
    The({[col_min |-> FFloor(FDiv(x[1], res)), col_max |-> FCeil(FDiv(x[3], res)),
          row_min |-> FFloor(FDiv(x[2], res)), row_max |-> FCeil(FDiv(x[4], res))] :
            x \in {b}, res \in {RES}})

\* lines 336-339: the bounds on the centers of pixels col_min, row_min, col_max, row_max
grid_bounds(g) ==
    The({<<FMul(res, FFromInt(g.col_min)), FMul(res, FFromInt(g.row_min)),
           FMul(res, FFromInt(g.col_max)), FMul(res, FFromInt(g.row_max))>> : res \in {RES}})

\* line 343: the transform whose origin is the upper left corner of the first pixel
px_is_area_transform(lon_min, lat_max) ==
    The({<<res, FZero, FSub(lon_min, FDiv(res, FFromInt(2))),
           FZero, FNeg(res), FAdd(lat_max, FDiv(res, FFromInt(2)))>> : res \in {RES}})

adjust_bounds_to_px_grid(b) ==
    The({The({[adjusted_bounds |-> ab,
               transform |-> px_is_area_transform(ab[1], ab[4]),
               shape |-> <<g.row_max - g.row_min + 1, g.col_max - g.col_min + 1>>] :
                 ab \in {grid_bounds(g)}}) :
            g \in {px_grid(b)}})

wrap_lon(lon) == FSub(FMod(FAdd(lon, FFromInt(180)), FFromInt(360)), FFromInt(180))

\* what a crop gives when it gives no raster: kind is "unset" before the call,
\* "None" for a crop out of coverage and "raised" for one left by an exception
NoRaster(kind) == [kind |-> kind, rows |-> 0, columns |-> <<>>, transform |-> <<>>]

\* lines 545-582: the raster that merge fills for the adjusted bounds of ab,
\* column j of it from grid column col_min + j.  An empty shape makes merge fail
\* on its own bounds (assert_interval, line 283), if the tile ids of the corner
\* points have not failed the assertion of line 559 before.
merged_raster(ab) ==
    The({IF adj.shape[1] <= 0 \/ adj.shape[2] <= 0 THEN NoRaster("raised")
         ELSE [kind |-> "raster", rows |-> adj.shape[1],
               columns |-> [j \in 1..adj.shape[2] |-> g.col_min + j - 1],
               transform |-> adj.transform] :
            adj \in {adjust_bounds_to_px_grid(ab)}, g \in {px_grid(ab)}})

\* crop_at_continous_lon_limits, given that tiles are found on the bounds: the
\* latitudes are clipped to the coverage and the adjusted bounds merged
crop_at_continous_lon_limits(b) ==
    The({The({IF lat.kind = "AssertionError" THEN NoRaster("raised")
              ELSE IF lat.kind = "None" THEN NoRaster("None")
              ELSE merged_raster(<<x[1], lat.low, x[3], lat.up>>) :
                 lat \in {intersect_intervals(<<x[2], x[4]>>,
                                              <<FFromInt(-60), FFromInt(60)>>)}}) :
            x \in {b}})

\* numpy.hstack of the two rasters of a crop over the antimeridian, with the
\* transform of the first; of two None it makes an array of two None
hstack(raster_start, raster_end) ==
    The({IF w.kind = "raised" \/ e.kind = "raised" THEN NoRaster("raised")
         ELSE IF w.kind = "None" \/ e.kind = "None" THEN NoRaster("None")
         ELSE IF w.rows # e.rows THEN NoRaster("raised")
         ELSE [w EXCEPT !.columns = w.columns \o e.columns] :
            w \in {raster_start}, e \in {raster_end}})

offset == FMul(FDiv(FFromInt(1), FFromInt(10)), RES)

\* the bounds of the two crops of a request over the antimeridian, from the
\* wrapped lon_start and lon_end
bounds_start(lon_start, b) ==
    <<lon_start, b[2], FSub(FSub(FFromInt(180), RES), offset), b[4]>>

bounds_end(lon_end, b) == <<FAdd(FFromInt(-180), offset), b[2], lon_end, b[4]>>

crop(b) ==
    The({IF FLess(x[3], x[1]) THEN NoRaster("raised")
         ELSE IF FLess(lon_end, lon_start)
         THEN hstack(crop_at_continous_lon_limits(bounds_start(lon_start, x)),
                     crop_at_continous_lon_limits(bounds_end(lon_end, x)))
         ELSE crop_at_continous_lon_limits(x) :
            x \in {b}, lon_start \in {wrap_lon(b[1])}, lon_end \in {wrap_lon(b[3])}})

\* longitudes at the antimeridian, in 2048ths of a degree around +180 and -180,
\* and the float next below -180
SeamSteps == {-6, -1, 0, 1, 6}
JustBelowMinus180 == [sign |-> -1, mant |-> <<1, 0, 0, 180>>, exp |-> -45]

NearSeam(deg) == {<<FAdd(FFromInt(deg), Dyadic(a, 11)), FAdd(FFromInt(deg), Dyadic(b, 11))>> :
                     <<a, b>> \in {ab \in SeamSteps \X SeamSteps : ab[1] < ab[2]}}

LonIntervals ==
    NearSeam(180) \cup NearSeam(-180)
    \cup {<<JustBelowMinus180, FAdd(FFromInt(-180), Dyadic(6, 11))>>,
          <<FAdd(FFromInt(-109), Dyadic(-6, 11)), FFromInt(-109)>>,
          <<FFromInt(7), FAdd(FFromInt(7), Dyadic(6, 11))>>}

LatIntervals ==
    {<<Dyadic(-1, 11), Dyadic(1, 11)>>,
     <<FAdd(FFromInt(60), Dyadic(-6, 11)), FAdd(FFromInt(60), Dyadic(6, 11))>>,
     <<FFromInt(61), FFromInt(62)>>}

Requests == {<<lon[1], lat[1], lon[2], lat[2]>> : lon \in LonIntervals, lat \in LatIntervals}

MaxApplications == 2

GridIdle ==
    /\ bounds = <<FZero, FZero, FZero, FZero>>
    /\ adjusted = <<>>
    /\ cropped = NoRaster("unset")

GridInit ==
    /\ bounds \in Requests
    /\ adjusted = <<>>
    /\ cropped = NoRaster("unset")

\* adjust_bounds_to_px_grid(bounds), then adjust_bounds_to_px_grid of the bounds it returned
CallAdjust ==
    /\ Len(adjusted) < MaxApplications
    /\ adjusted' = Append(adjusted,
                          adjust_bounds_to_px_grid(IF adjusted = <<>> THEN bounds
                                                   ELSE adjusted[Len(adjusted)].adjusted_bounds))
    /\ UNCHANGED <<bounds, cropped>>
    /\ UNCHANGED notGrid

\* crop(bounds)
CallCrop ==
    /\ cropped = NoRaster("unset")
    /\ cropped' = crop(bounds)
    /\ UNCHANGED <<bounds, adjusted>>
    /\ UNCHANGED notGrid

(***************************************************************************)
(* The mosaic: special_round, get_px_region and merge.  All rasters have   *)
(* pixels of RES degrees, so that coordinates are counted in units of      *)
(* 1 / Scale of a pixel, longitudes eastwards and latitudes northwards     *)
(* from the center of the first pixel of the final array; the float errors *)
(* of a window, far below such a unit, are left out.  A transform is the   *)
(* longitude c and latitude f of its origin.                               *)
(***************************************************************************)
EpsInv == 100
Scale == 10 * EpsInv

\* numpy.nan, as a value that no tile holds
NaN == 2^20

\* intersect_intervals on the coordinates of merge, which are integers here
intersect_intervals_px(interval_one, interval_two) ==
    The({IF ~(one[1] < one[2]) \/ ~(two[1] < two[2])
         THEN NoInterval("AssertionError")
         ELSE The({IF up_inter < low_inter THEN NoInterval("None")
                   ELSE [kind |-> "interval", low |-> low_inter, up |-> up_inter] :
                      low_inter \in {IF one[1] < two[1] THEN two[1] ELSE one[1]},
                      up_inter \in {IF two[2] < one[2] THEN two[2] ELSE one[2]}}) :
            one \in {interval_one}, two \in {interval_two}})

\* round(val) for val / Scale: the nearest integer, and the even one of two
round(val) ==
    The({IF 2 * (v % Scale) < Scale THEN v \div Scale
         ELSE IF 2 * (v % Scale) > Scale THEN (v \div Scale) + 1
         ELSE (v \div Scale) + ((v \div Scale) % 2) : v \in {val}})

\* special_round(val) for val / Scale with eps = 1 / EpsInv: the assertion is
\* rounded - val < eps
special_round(val) ==
    The({[raised |-> ~((rounded * Scale - val) * EpsInv < Scale), rounded |-> rounded] :
            rounded \in {round(val)}})

\* rasterio.windows.from_bounds
from_bounds(left, bottom, right, top, transform) ==
    [col_off |-> left - transform.c, row_off |-> transform.f - top,
     width |-> right - left, height |-> top - bottom]

\* get_px_region: quantities are the four values given to special_round, region
\* is (col, row, w, h)
get_px_region(geo_px_bounds, transform, transform_is_area) ==
    The({The({[raised |-> row.raised \/ col.raised \/ h.raised \/ w.raised,
               quantities |-> <<window.row_off - off, window.col_off - off,
                                window.height, window.width>>,
               region |-> <<col.rounded, row.rounded, w.rounded, h.rounded>>] :
                 row \in {special_round(window.row_off - off)},
                 col \in {special_round(window.col_off - off)},
                 h \in {special_round(window.height)},
                 w \in {special_round(window.width)}}) :
            window \in {from_bounds(geo_px_bounds[1], geo_px_bounds[2],
                                    geo_px_bounds[3], geo_px_bounds[4], transform)},
            off \in {IF transform_is_area THEN Scale \div 2 ELSE 0}})

\* intersect_bounds of bounds (w, s, e, n)
intersect_bounds(one_bound, other_bound) ==
    The({IF we.kind = "AssertionError" \/ sn.kind = "AssertionError"
         THEN [kind |-> "AssertionError", bounds |-> <<>>]
         ELSE IF we.kind = "None" \/ sn.kind = "None" THEN [kind |-> "None", bounds |-> <<>>]
         ELSE [kind |-> "bounds", bounds |-> <<we.low, sn.low, we.up, sn.up>>] :
            we \in {intersect_intervals_px(<<one_bound[1], one_bound[3]>>,
                                        <<other_bound[1], other_bound[3]>>)},
            sn \in {intersect_intervals_px(<<one_bound[2], one_bound[4]>>,
                                        <<other_bound[2], other_bound[4]>>)}})

\* lines 467-471: transform * (off, off) and transform * (width + off, height + off)
dst_bounds(transform, shape) ==
    <<transform.c + Scale \div 2, transform.f - (shape[1] * Scale + Scale \div 2),
      transform.c + (shape[2] * Scale + Scale \div 2), transform.f - Scale \div 2>>

\* array[row : row + height, col : col + width]
Slice(array, row, height, col, width) ==
    [i \in 1..height |-> [j \in 1..width |-> array[row + i][col + j]]]

\* array after its slice at (row, col) became region
Assign(array, row, col, region) ==
    [i \in DOMAIN array |->
        [j \in DOMAIN array[i] |->
            IF i - row \in DOMAIN region /\ j - col \in DOMAIN region[i - row]
            THEN region[i - row][j - col] ELSE array[i][j]]]

\* numpy.isnan(array) if numpy.isnan(value) else array == value: NaN is the one
\* value of the model that is nan
IsNodata(array, value) ==
    [i \in DOMAIN array |-> [j \in DOMAIN array[i] |-> array[i][j] = value]]

\* the mutant of copyto lets every tile write where it has data
copyto_unmasked(old_data, new_data, old_nodata, new_nodata) ==
    [i \in DOMAIN old_data |->
        [j \in DOMAIN old_data[i] |->
            IF ~new_nodata[i][j] THEN new_data[i][j] ELSE old_data[i][j]]]

copyto(old_data, new_data, old_nodata, new_nodata) ==
    [i \in DOMAIN old_data |->
        [j \in DOMAIN old_data[i] |->
            IF old_nodata[i][j] /\ ~new_nodata[i][j] THEN new_data[i][j]
            ELSE old_data[i][j]]]

\* lines 487-506: the regions of the intersection in the final array and in the
\* dataset, and the final array after the copy
merge_regions(array, dataset, int_bounds, transform, value) ==
    The({IF dst.raised THEN [raised |-> TRUE, regions |-> <<dst>>, array |-> array]
         ELSE The({IF src.raised
                   THEN [raised |-> TRUE, regions |-> <<dst, src>>, array |-> array]
                   ELSE The({[raised |-> FALSE, regions |-> <<dst, src>>,
                              array |-> Assign(array, dst.region[2], dst.region[1],
                                               copyto(dst_region, tmp_array,
                                                      IsNodata(dst_region, value),
                                                      IsNodata(tmp_array, dataset.nodata)))] :
                                dst_region \in {Slice(array, dst.region[2], dst.region[4],
                                                      dst.region[1], dst.region[3])},
                                tmp_array \in {Slice(dataset.data, src.region[2], src.region[4],
                                                     src.region[1], src.region[3])}}) :
                      src \in {get_px_region(int_bounds, dataset.transform, FALSE)}}) :
            dst \in {get_px_region(int_bounds, transform, TRUE)}})

\* the tiles of the model: rasters of one row and TileWidth columns of heights or
\* TileNodata, at some longitudes around the final array, whose first row they share
TileWidth == 2
DstWidth == 3
TileNodata == -(2^15)
Heights == {0, 7}
Lefts == {-Scale, 0, 5, 4 * EpsInv, 6 * EpsInv, Scale}

Tiles ==
    {[transform |-> [c |-> left, f |-> 0],
      bounds |-> <<left, -Scale, left + TileWidth * Scale, 0>>,
      data |-> <<row>>, nodata |-> TileNodata] :
        left \in Lefts, row \in [1..TileWidth -> Heights \cup {TileNodata}]}

NumTiles == 2

\* the transform and the shape merge is given
dst_transform == [c |-> -(Scale \div 2), f |-> Scale \div 2]
dst_shape == <<1, DstWidth>>

MergeIdle ==
    /\ datasets = <<>>
    /\ nodata = NaN
    /\ dst_array = <<>>
    /\ merged = 0
    /\ regions = <<>>
    /\ mpc = "returned"

\* line 463: the final array is full of nodata
MergeInit ==
    /\ datasets \in [1..NumTiles -> Tiles]
    /\ nodata \in {NaN, 0}
    /\ dst_array = [i \in 1..dst_shape[1] |-> [j \in 1..dst_shape[2] |-> nodata]]
    /\ merged = 0
    /\ regions = <<>>
    /\ mpc = "loop"

\* lines 477-506: one turn of the loop over the datasets
MergeDataset ==
    /\ mpc = "loop"
    /\ merged < Len(datasets)
    /\ \E int_bounds \in {intersect_bounds(dst_bounds(dst_transform, dst_shape),
                                           datasets[merged + 1].bounds)} :
          IF int_bounds.kind = "AssertionError"
          THEN /\ mpc' = "raised"
               /\ UNCHANGED <<dst_array, merged, regions>>
          ELSE IF int_bounds.kind = "None"
          THEN /\ merged' = merged + 1
               /\ regions' = <<>>
               /\ UNCHANGED <<dst_array, mpc>>
          ELSE \E r \in {merge_regions(dst_array, datasets[merged + 1], int_bounds.bounds,
                                       dst_transform, nodata)} :
                  /\ regions' = r.regions
                  /\ dst_array' = r.array
                  /\ mpc' = IF r.raised THEN "raised" ELSE mpc
                  /\ merged' = IF r.raised THEN merged ELSE merged + 1
    /\ UNCHANGED <<datasets, nodata>>
    /\ UNCHANGED notMerge

\* line 508
MergeReturn ==
    /\ mpc = "loop"
    /\ merged = Len(datasets)
    /\ mpc' = "returned"
    /\ UNCHANGED <<datasets, nodata, dst_array, merged, regions>>
    /\ UNCHANGED notMerge

(***************************************************************************)
(* Tile names: a tile id is turned into its name and the name parsed back. *)
(***************************************************************************)
TileIds == (1..MaxLonId) \X (1..MaxLatId)

NamesIdle ==
    /\ ids = <<1, 1>>
    /\ name = "unset"
    /\ parsed = "unset"

NamesInit ==
    /\ ids \in TileIds
    /\ name = "unset"
    /\ parsed = "unset"

\* id2name(lon_id, lat_id)
CallId2name ==
    /\ name = "unset"
    /\ name' = id2name(ids[1], ids[2])
    /\ UNCHANGED <<ids, parsed>>
    /\ UNCHANGED notNames

\* name2id(tile_name)
CallName2id ==
    /\ name # "unset"
    /\ parsed = "unset"
    /\ parsed' = name2id(name)
    /\ UNCHANGED <<ids, name>>
    /\ UNCHANGED notNames

(***************************************************************************)
(* The specifications.                                                     *)
(***************************************************************************)
Init == CacheInit /\ NamesIdle /\ GridIdle /\ MergeIdle

Next ==
    \E p \in Procs :
        \/ LoopCall(p)
        \/ LoopEnd(p)
        \/ FastAcquire(p)
        \/ FastRelease(p)
        \/ ZipAcquire(p)
        \/ Check2(p)
        \/ DlGet(p)
        \/ DlWrite(p)
        \/ DlExcept(p)
        \/ TifAcquire(p)
        \/ ExtractBegin(p)
        \/ ExtractEnd(p)
        \/ RemoveZip(p)
        \/ ReleaseTif(p)
        \/ ReleaseZip(p)
        \/ OpenTile(p)
        \/ Catch(p)
        \/ Finalize(p)

\* processes cropping spans of tiles out of one cache directory
Spec == Init /\ [][Next]_vars

\* the statements of process p: the crop loop and its calls of get_srtm_tile
Statement(p) ==
    \/ LoopCall(p)
    \/ LoopEnd(p)
    \/ FastAcquire(p)
    \/ FastRelease(p)
    \/ ZipAcquire(p)
    \/ Check2(p)
    \/ DlGet(p)
    \/ DlWrite(p)
    \/ DlExcept(p)
    \/ TifAcquire(p)
    \/ ExtractBegin(p)
    \/ ExtractEnd(p)
    \/ RemoveZip(p)
    \/ ReleaseTif(p)
    \/ ReleaseZip(p)
    \/ OpenTile(p)
    \/ Catch(p)

\* the same processes under fair scheduling: a process whose next statement can
\* run does run it (no crash, every download ends).  Nothing in get_srtm_tile
\* or in the crop loop makes Finalize happen, so it has no fairness condition.
SpecFair == Init /\ [][Next]_vars /\ \A p \in Procs : WF_vars(Statement(p))

InitNames == NamesInit /\ CacheIdle /\ GridIdle /\ MergeIdle

NextNames == CallId2name \/ CallName2id

\* tile ids turned into names and back
SpecNames == InitNames /\ [][NextNames]_vars

InitGrid == GridInit /\ CacheIdle /\ NamesIdle /\ MergeIdle

NextGrid == CallAdjust \/ CallCrop

\* bounds adjusted to the pixel grid, and cropped
SpecGrid == InitGrid /\ [][NextGrid]_vars

InitMerge == MergeInit /\ CacheIdle /\ NamesIdle /\ GridIdle

NextMerge == MergeDataset \/ MergeReturn

\* tiles merged into a final array
SpecMerge == InitMerge /\ [][NextMerge]_vars

(***************************************************************************)
(* Claims about the tile cache and the crop loop.                          *)
(***************************************************************************)
\* pc values of a call of get_srtm_tile that has not ended yet
InCall == {"fast_acquire", "fast_release", "zip_acquire", "check2", "dl_get", "dl_write",
           "dl_except", "tif_acquire", "extract", "extracting", "remove",
           "release_tif", "release_zip"}

\* pc values between the decision to download and the release of the download lock
FetchSection == {"dl_get", "dl_write", "dl_except", "tif_acquire", "extract",
                 "extracting", "remove", "release_tif", "release_zip"}

\* C1: no call of get_srtm_tile returns normally while the .tif of its tile is
\* still being written (between the start and the end of an extraction), whichever
\* path the call returns by: the fast path, the second test or the download.
C1_NoPartialReads ==
    [][\A p \in Procs :
          (pc[p] \in InCall /\ pc'[p] = "ret") => tif'[Cur(p)] # "partial"]_vars

\* a call that saw the file half written at line 122 and has returned by the fast path
C1_FastPathAfterPartial ==
    \E p \in Procs : pc[p] = "ret" /\ first[p] = "partial" /\ tif[Cur(p)] = "complete"

\* C2 as stated: exactly one network download of a tile, however many calls ask for it.
C2_ExactlyOneDownload ==
    \A t \in TileNames : downloads[t] <= 1

\* C2 amended: at most one call at a time is between the decision to download and
\* the release of the download lock; no call downloads a tile whose file exists;
\* the tile file is extracted at most once; and every download but the one that
\* gave (or is about to give) the tile file delivered an archive without the tile.
C2_OneUsableDownload ==
    /\ Cardinality({p \in Procs : pc[p] \in FetchSection}) <= 1
    /\ \A p \in Procs : pc[p] \in {"dl_get", "dl_write"} => tif[Cur(p)] = "absent"
    /\ \A t \in TileNames :
         /\ extracted[t] <= 1
         /\ tif[t] = "complete" => extracted[t] = 1
         /\ downloads[t] - unusable[t] <= 1
         /\ extracted[t] <= downloads[t] - unusable[t]

\* two calls for the same tile have returned, and the tile was downloaded once
C2_TwoCallsOneDownload ==
    \E p, q \in Procs :
        /\ p # q
        /\ pc[p] = "ret" /\ pc[q] = "ret"
        /\ Cur(p) = Cur(q)
        /\ tif[Cur(p)] = "complete"
        /\ downloads[Cur(p)] = 1

\* C3: a crop is left by an exception only when no tile was opened, and then by
\* the ValueError of line 580; a tile whose download failed, or whose archive held
\* no tile, never ends the crop.
C3_OnlyNoCoverageAborts ==
    \A p \in Procs :
        pc[p] = "crop_raised" => (err[p] = "ValueError" /\ opened[p] = 0)

\* C4: when the fetch of get_srtm_tile fails, the caller sees the error with the
\* download lock free.
C4_LockFreeWhenFetchFails ==
    \A p \in Procs :
        (pc[p] = "raised" /\ fetched[p] = "none") => zipLock # p

\* C5: a call that fetched something that is no zip archive, or a zip archive
\* without <tile>.tif, ends by returning, with no tile file, the archive removed
\* and both locks released.
C5_UnusableArchiveIsNoError ==
    [][\A p \in Procs :
          (/\ fetched[p] \in {"notzip", "zip_noentry"}
           /\ pc[p] \in InCall
           /\ pc'[p] \notin InCall)
          => (/\ pc'[p] = "ret"
              /\ tif'[Cur(p)] = "absent"
              /\ zip'[Cur(p)] = "absent"
              /\ tifLock' # p
              /\ zipLock' # p)]_vars

\* a step of process p
StepOf(p) == pc'[p] # pc[p]

\* C11: a process that creates, writes or deletes a file of the cache directory,
\* the archive <tile>.zip as well as <tile>.tif, holds the write lock when it
\* does so, and a process that decides to download holds the download lock.
C11_WriteLockOnEveryMutation ==
    [][\A p \in Procs :
          /\ (StepOf(p) /\ (tif' # tif \/ zip' # zip)) => tifLock = p
          /\ (pc[p] = "check2" /\ pc'[p] = "dl_get") => zipLock = p]_vars

\* C11 as the code has it: a process that writes <tile>.tif or deletes
\* <tile>.zip holds the write lock and the download lock; a process that writes
\* <tile>.zip holds the download lock (and not the write lock: the archive is
\* downloaded before lock_tif is acquired); a process that decides to download
\* holds the download lock.
C11_LockDiscipline ==
    [][\A p \in Procs :
          /\ (StepOf(p) /\ tif' # tif) => (tifLock = p /\ zipLock = p)
          /\ (StepOf(p) /\ zip' # zip /\ zip'[Cur(p)] = "absent")
                => (tifLock = p /\ zipLock = p)
          /\ (StepOf(p) /\ zip' # zip /\ zip'[Cur(p)] # "absent")
                => (zipLock = p /\ tifLock # p)
          /\ (pc[p] = "check2" /\ pc'[p] = "dl_get") => zipLock = p]_vars

\* a call has downloaded the archive, extracted the tile and deleted the archive,
\* and still holds both locks, while another process waits for one of them
C11_MutatedUnderLocks ==
    \E p, q \in Procs :
        /\ pc[p] = "release_tif"
        /\ fetched[p] = "zip_ok"
        /\ tif[Cur(p)] = "complete"
        /\ zip[Cur(p)] = "absent"
        /\ tifLock = p /\ zipLock = p
        /\ pc[q] \in {"fast_acquire", "zip_acquire"}


\* C12: under fair scheduling every call of get_srtm_tile ends, by returning or
\* by raising: no call waits for ever for the download lock or the write lock.
C12_EveryCallEnds ==
    \A p \in Procs : (pc[p] \in InCall) ~> (pc[p] \notin InCall)

(***************************************************************************)
(* Claims about the pixel grid and the antimeridian crop.                  *)
(***************************************************************************)
\* the grid columns of one turn around the globe: 360 / RES
GridColumns == 360 * 1200

\* how often grid column k, or the same column one turn further, is among cols
Occurrences(cols, k) ==
    Cardinality({j \in DOMAIN cols : (cols[j] - k) % GridColumns = 0})

\* C7: a crop over the antimeridian (wrapped lon_end smaller than wrapped
\* lon_start, latitudes in the coverage) returns the columns of the western crop
\* [lon_start, 180 - RES - offset] followed by those of the eastern crop
\* [-180 + offset, lon_end]: as many columns as the two crops together, every grid
\* column from that of lon_start to that of lon_end once, the seam column at
\* +/-180 once, and the transform of the western crop.
C7_AntimeridianColumns ==
    (/\ cropped.kind \notin {"unset", "None"}
     /\ FLess(wrap_lon(bounds[3]), wrap_lon(bounds[1])))
    => LET west == crop_at_continous_lon_limits(bounds_start(wrap_lon(bounds[1]), bounds))
           east == crop_at_continous_lon_limits(bounds_end(wrap_lon(bounds[3]), bounds))
           first_col == FFloor(FDiv(wrap_lon(bounds[1]), RES))
           last_col == FCeil(FDiv(wrap_lon(bounds[3]), RES))
           seam == GridColumns \div 2
       IN  /\ cropped.kind = "raster"
           /\ west.kind = "raster" /\ east.kind = "raster"
           /\ cropped.columns = west.columns \o east.columns
           /\ Len(cropped.columns) = Len(west.columns) + Len(east.columns)
           /\ \A k \in (first_col..(seam - 1)) \cup ((-seam)..last_col) :
                  Occurrences(cropped.columns, k) = 1
           /\ Occurrences(cropped.columns, seam) = 1
           /\ \A j \in DOMAIN cropped.columns :
                  Occurrences(cropped.columns, cropped.columns[j]) = 1
           /\ cropped.transform = west.transform

\* C9: adjust_bounds_to_px_grid applied to the bounds it returned gives the same
\* bounds, transform and shape again, and its shape is
\* (row_max - row_min + 1, col_max - col_min + 1) for the columns and rows
\* floor(min / RES) and ceil(max / RES) of the bounds.
C9_AlignmentIdempotent ==
    /\ adjusted # <<>>
       => adjusted[1].shape =
              <<FCeil(FDiv(bounds[4], RES)) - FFloor(FDiv(bounds[2], RES)) + 1,
                FCeil(FDiv(bounds[3], RES)) - FFloor(FDiv(bounds[1], RES)) + 1>>
    /\ \A i \in 2..Len(adjusted) : adjusted[i] = adjusted[1]

(***************************************************************************)
(* Claims about merge and the rounding of pixel windows.                   *)
(***************************************************************************)
Pixels == (1..dst_shape[1]) \X (1..dst_shape[2])

\* the column and the row of a dataset that lie on pixel px of the final array:
\* those whose centers are nearest to the center of px
DatasetColumn(dataset, px) == px[2] - round(dataset.transform.c)
DatasetRow(dataset, px) == px[1] - round(-dataset.transform.f)

Covers(dataset, px) ==
    /\ DatasetRow(dataset, px) \in DOMAIN dataset.data
    /\ DatasetColumn(dataset, px) \in DOMAIN dataset.data[DatasetRow(dataset, px)]

ValueAt(dataset, px) == dataset.data[DatasetRow(dataset, px)][DatasetColumn(dataset, px)]

\* the first of the datasets merged so far that covers px with a value that is
\* none of the values in Excluded(dataset), 0 if there is none
FirstWith(px, Excluded(_)) ==
    LET with == {i \in 1..merged : /\ Covers(datasets[i], px)
                                   /\ ValueAt(datasets[i], px) \notin Excluded(datasets[i])}
    IN  IF with = {} THEN 0 ELSE CHOOSE i \in with : \A j \in with : i <= j

OwnNodata(dataset) == {dataset.nodata}
OwnOrFinalNodata(dataset) == {dataset.nodata, nodata}

\* C6: while merge runs and when it has returned, every pixel of the final array
\* holds the value of the first dataset that covers it with a value other than
\* that dataset's own nodata, and nodata if there is no such dataset (so that no
\* later dataset changes a pixel once it is filled).
C6_FirstTileWins ==
    mpc # "raised"
    => \A px \in Pixels :
          dst_array[px[1]][px[2]] =
              IF FirstWith(px, OwnNodata) = 0 THEN nodata
              ELSE ValueAt(datasets[FirstWith(px, OwnNodata)], px)

\* C6 as the code has it: every pixel of the final array holds the value of the
\* first dataset that covers it with a value other than that dataset's own nodata
\* and other than the nodata of the final array, and nodata if there is none.
C6_FirstFilledWins ==
    mpc # "raised"
    => \A px \in Pixels :
          dst_array[px[1]][px[2]] =
              IF FirstWith(px, OwnOrFinalNodata) = 0 THEN nodata
              ELSE ValueAt(datasets[FirstWith(px, OwnOrFinalNodata)], px)

\* merge returned a pixel that two datasets cover with different heights: it
\* holds the height of the first
C6_OverlapKeepsFirst ==
    /\ mpc = "returned"
    /\ merged = Len(datasets)
    /\ \E px \in Pixels : \E i, j \in 1..merged :
          /\ i < j
          /\ FirstWith(px, OwnOrFinalNodata) = i
          /\ Covers(datasets[j], px)
          /\ ValueAt(datasets[j], px) \notin {datasets[j].nodata, nodata,
                                              ValueAt(datasets[i], px)}
          /\ dst_array[px[1]][px[2]] = ValueAt(datasets[i], px)

\* the distance of val / Scale to the integer it is rounded to is above eps
ErrorAboveEps(val) ==
    \/ (round(val) * Scale - val) * EpsInv > Scale
    \/ (val - round(val) * Scale) * EpsInv > Scale

\* C8: a call of get_px_region gives the nearest integers of its four quantities
\* only if each of them is within eps = 1e-2 of its nearest integer, and fails if
\* one of them is further away, be it below or above that integer.
C8_RoundingGuard ==
    \A n \in DOMAIN regions :
        /\ regions[n].raised <=> \E q \in 1..4 : ErrorAboveEps(regions[n].quantities[q])
        /\ ~regions[n].raised
           => regions[n].region = <<round(regions[n].quantities[2]),
                                    round(regions[n].quantities[1]),
                                    round(regions[n].quantities[4]),
                                    round(regions[n].quantities[3])>>

(***************************************************************************)
(* Claims about tile names.                                                *)
(***************************************************************************)
\* the name of every valid tile id
NameTable == [id \in TileIds |-> id2name(id[1], id[2])]

\* C10: for lon_id in 1..72 and lat_id in 1..24, name2id(id2name(lon_id, lat_id))
\* is (lon_id, lat_id), the name is zero padded (two digits for each id), and no
\* other valid id has the same name.
C10_NameRoundTrip ==
    /\ name # "unset" =>
         /\ Len(name) = 10
         /\ \A other \in TileIds : NameTable[other] = name => other = ids
    /\ parsed # "unset" => parsed = ids

\* a two digit lon id and a one digit lat id went through both conversions
C10_RoundTripDone ==
    /\ parsed # "unset"
    /\ ids = <<MaxLonId, 3>>
    /\ name = <<"s", "r", "t", "m", "_", "7", "2", "_", "0", "3">>

====
